---- MODULE Spec2Model ----
(***************************************************************************)
(* A model of dee-ds/music_project:                                        *)
(*   - BillboardSpider (spiders/billboard.py): the weekly chart crawl;     *)
(*   - labels_match, spotify_audio_features, artist_stats (utils.py).      *)
(* Dates are proleptic Gregorian ordinals (datetime.date.toordinal()), so  *)
(* that "one week later" is +7.                                            *)
(***************************************************************************)
EXTENDS Integers, Sequences, FiniteSets, TLC

VARIABLES
    \* ---- BillboardSpider ----
    resp_date,      \* self.resp_date: the date of the chart being requested
    scheduled,      \* requests handed to the framework and not yet answered
    n_requested,    \* number of requests issued so far
    last_requested, \* the date of the latest request issued
    feed_on,        \* the crawl runs with a feed export (-o): items are kept
    items,          \* the records written to the feed so far, in order
    responses,      \* the pages whose records went to the feed, in order
    items_scraped,  \* number of records yielded so far
    all_parsed,     \* every response so far reached parse() and parse() finished
    pages_parsed,   \* number of parse() calls that ran to their end
    \* ---- labels_match ----
    calls,          \* the argument lists of the calls to make, in order
    verdicts,       \* the Booleans returned by the calls made so far
    \* ---- artist_stats ----
    hot_100,        \* the chart table: rows [date, pos, artist, song]
    artist,         \* the name of the artist
    stats_txt,      \* <artist>_stats.txt: the statistics written, by name
    songs_json,     \* solo_songs.json and collab_songs.json: the songs listed
    stats_ret,      \* "none" before the call, then "True" or the exception
    \* ---- spotify_audio_features ----
    df,             \* the data frame: rows [date, artist, song]
    log_file,       \* spotify_audio_features_log.csv: its lines, in order
    pc,             \* where the function is: "idle", "auth", "loop", "search",
                    \* "features", "artists", "done"
    ret,            \* "none", then "True", "False" or the exception raised
    order,          \* the rows df.groupby(level='date') will iterate, by df position
    hot_i,          \* number of rows taken from the iteration
    batch_list,     \* the records collected for the next batch
    batch_i,        \* number of full batches saved
    final_save,     \* save_batch is called on the remaining data (line 308)
    header_auth,    \* the token in header_auth['Authorization']; 0 is ''
    n_auth,         \* number of calls of auth_update
    spot_q_resp,    \* the latest search response, with the request it answers
    spot_feat_resp, \* the latest audio-features response, with its request
    spot_artist_resp, \* the latest artists response, with its request
    rate_limited,   \* "no", or the request that was answered 429
    sent_after_429, \* number of requests sent after a 429 was received
    searched,       \* the df positions whose search ended (200), in order
    saved           \* the batches passed to save_batch, as lists of df positions

spiderVars ==
    <<resp_date, scheduled, n_requested, last_requested, feed_on, items,
      responses, items_scraped, all_parsed, pages_parsed>>

labelVars == <<calls, verdicts>>

statsVars == <<hot_100, artist, stats_txt, songs_json, stats_ret>>

enrichVars ==
    <<df, log_file, pc, ret, order, hot_i, batch_list, batch_i, final_save,
      header_auth, n_auth, spot_q_resp, spot_feat_resp, spot_artist_resp,
      rate_limited, sent_after_429, searched, saved>>

vars == <<spiderVars, labelVars, statsVars, enrichVars>>

(***************************************************************************)
(* Generic helpers                                                         *)
(***************************************************************************)
Range(s) == {s[i] : i \in 1..Len(s)}

Last(s) == s[Len(s)]

RECURSIVE SeqsUpTo(_, _)
\* all sequences over S of length at most n
SeqsUpTo(S, n) ==
    IF n = 0 THEN {<<>>}
    ELSE LET shorter == SeqsUpTo(S, n - 1)
         IN  shorter \cup {Append(s, x) : s \in {t \in shorter : Len(t) = n - 1}, x \in S}

(***************************************************************************)
(* BillboardSpider                                                         *)
(***************************************************************************)
\* dt.date(1958, 8, 2).toordinal()
starting_date == 714993

\* dt.date(2023, 5, 27).toordinal()
ending_date == 738667

\* a page without the "Week of" tagline: .get() returns None
NoDate == 0

\* a chart row whose statistics spans are missing or not numbers
BrokenRow == 0

\* the pages an arbitrary site may return: positions, how many weeks a
\* chart may be older than the requested one, and the rows of a page
Positions == 1..2

StaleWeeks == 0..1

PageRows == SeqsUpTo({BrokenRow} \cup Positions, 2)

\* number of pages followed against an arbitrary site
MaxPages == 2

\* self.resp_date + dt.timedelta(weeks=1)
NextWeekDays(d) == d + 1

NextWeek(d) == d + 7

\* if self.resp_date <= self.ending_date
FollowUpStrict(d) == d < ending_date

FollowUp(d) == d <= ending_date

\* number of leading rows of a page that load into an item
RECURSIVE GoodPrefix(_)
GoodPrefix(rows) ==
    IF rows = <<>> \/ Head(rows) = BrokenRow THEN 0
    ELSE 1 + GoodPrefix(Tail(rows))

\* every row of the page is yielded, the first one included
YieldedRowsTwice(page) ==
    IF page.date = NoDate THEN <<>> ELSE
    LET n == GoodPrefix(page.rows)
    IN  [i \in 1..(IF n = 0 THEN 0 ELSE n + 1) |->
            [date |-> page.date, pos |-> page.rows[IF i = 1 THEN 1 ELSE i - 1]]]

\* the records parse() yields from a page before it ends or raises:
\* hot100[0], then hot100[1:], each with the page's own date
YieldedRows(page) ==
    [i \in 1..GoodPrefix(page.rows) |-> [date |-> page.date, pos |-> page.rows[i]]]

\* parse() raises before the first yield (no tagline, no rows) or at a row
ParseRaises(page) ==
    \/ page.date = NoDate
    \/ page.rows = <<>>
    \/ GoodPrefix(page.rows) < Len(page.rows)

\* parse(response) for the response to the oldest outstanding request
Parse(page) ==
    /\ scheduled # <<>>
    /\ items_scraped' = items_scraped + Len(YieldedRows(page))
    /\ items' = IF feed_on THEN items \o YieldedRows(page) ELSE items
    /\ responses' = IF feed_on THEN Append(responses, page) ELSE responses
    /\ feed_on' = feed_on
    /\ UNCHANGED <<labelVars, statsVars, enrichVars>>
    /\ IF ParseRaises(page)
       THEN /\ all_parsed' = FALSE
            /\ scheduled' = Tail(scheduled)
            /\ UNCHANGED <<resp_date, n_requested, last_requested, pages_parsed>>
       ELSE /\ resp_date' = NextWeek(resp_date)
            /\ pages_parsed' = pages_parsed + 1
            /\ all_parsed' = all_parsed
            /\ IF FollowUp(resp_date')
               THEN /\ scheduled' = Append(Tail(scheduled), resp_date')
                    /\ n_requested' = n_requested + 1
                    /\ last_requested' = resp_date'
               ELSE /\ scheduled' = Tail(scheduled)
                    /\ UNCHANGED <<n_requested, last_requested>>

\* the download fails or answers a non-2xx status: parse() is never called
FetchFailed ==
    /\ scheduled # <<>>
    /\ scheduled' = Tail(scheduled)
    /\ all_parsed' = FALSE
    /\ UNCHANGED <<resp_date, n_requested, last_requested, feed_on, items,
                   responses, items_scraped, pages_parsed>>
    /\ UNCHANGED <<labelVars, statsVars, enrichVars>>

\* the state after the class body ran: start_urls holds the first chart
InitSpider ==
    /\ resp_date = starting_date
    /\ scheduled = <<starting_date>>
    /\ n_requested = 1
    /\ last_requested = starting_date
    /\ feed_on \in BOOLEAN
    /\ items = <<>>
    /\ responses = <<>>
    /\ items_scraped = 0
    /\ all_parsed = TRUE
    /\ pages_parsed = 0

\* a site that answers the request for date d with the chart of week d
ChartPage(d) == [date |-> d, rows |-> <<1>>]

SitePages(d) ==
    { ChartPage(d),
      [date |-> NoDate, rows |-> <<1>>],
      [date |-> d, rows |-> <<>>],
      [date |-> d, rows |-> <<1, BrokenRow>>] }

\* any page: a chart of this or an earlier week, rows with any positions
AnyPages(d) ==
    [date : {d - 7 * k : k \in StaleWeeks} \cup {NoDate}, rows : PageRows]

ParseSitePage ==
    /\ scheduled # <<>>
    /\ \E page \in SitePages(Head(scheduled)) : Parse(page)

ParseAnyPage ==
    /\ scheduled # <<>>
    /\ pages_parsed < MaxPages
    /\ \E page \in AnyPages(Head(scheduled)) : Parse(page)

NextCrawl == ParseSitePage \/ FetchFailed

NextPages == ParseAnyPage

\* the whole crawl against a site that serves the requested week
\* the spider is not run
NoCrawl ==
    /\ resp_date = starting_date
    /\ scheduled = <<>>
    /\ n_requested = 0
    /\ last_requested = starting_date
    /\ feed_on = FALSE
    /\ items = <<>>
    /\ responses = <<>>
    /\ items_scraped = 0
    /\ all_parsed = TRUE
    /\ pages_parsed = 0

\* no call of labels_match is under way
NoLabels == calls = <<>> /\ verdicts = <<>>

\* no response yet
NoResp == [payload |-> <<>>, auth |-> 0, sc |-> 0]

\* spotify_audio_features is not called
NoEnrich ==
    /\ df = <<>>
    /\ log_file = <<>>
    /\ pc = "idle"
    /\ ret = "none"
    /\ order = <<>>
    /\ hot_i = 0
    /\ batch_list = <<>>
    /\ batch_i = 0
    /\ final_save = FALSE
    /\ header_auth = 0
    /\ n_auth = 0
    /\ spot_q_resp = NoResp
    /\ spot_feat_resp = NoResp
    /\ spot_artist_resp = NoResp
    /\ rate_limited = "no"
    /\ sent_after_429 = 0
    /\ searched = <<>>
    /\ saved = <<>>

\* artist_stats is not called
NoStats ==
    /\ hot_100 = <<>>
    /\ artist = <<>>
    /\ stats_txt = <<>>
    /\ songs_json = <<>>
    /\ stats_ret = "none"

InitCrawl == InitSpider /\ feed_on = FALSE /\ NoLabels /\ NoStats /\ NoEnrich

SpecCrawl == InitCrawl /\ [][NextCrawl]_vars /\ WF_vars(NextCrawl)

\* the first MaxPages pages of a crawl against an arbitrary site
InitPages == InitSpider /\ feed_on = TRUE /\ NoLabels /\ NoStats /\ NoEnrich

SpecPages == InitPages /\ [][NextPages]_vars

(***************************************************************************)
(* labels_match                                                            *)
(* A label is a sequence of characters.  NBSP is U+00A0, the third         *)
(* alternative of the split pattern; RSQUO is U+2019.                      *)
(***************************************************************************)
NBSP == "nbsp"

RSQUO == "rsquo"

\* the characters removed from song labels: r'!|\[|\]|\(|\)'
SongPunct == {"!", "[", "]", "(", ")"}

LowerOf == ("A" :> "a") @@ ("B" :> "b") @@ ("C" :> "c") @@ ("N" :> "n") @@ ("S" :> "s")

UpperOf == ("a" :> "A") @@ ("b" :> "B") @@ ("c" :> "C") @@ ("n" :> "N") @@ ("s" :> "S")

\* the null label of the enrichment
NaN == <<"N", "a", "N">>

\* match_thresh = 0.5 and the 1e-5 taken off it, in units of 1e-5
match_thresh == 50000

\* str.lower() leaves the case as it is
StrLowerNoop(s) == s

\* str.lower()
StrLower(s) == [i \in 1..Len(s) |-> IF s[i] \in DOMAIN LowerOf THEN LowerOf[s[i]] ELSE s[i]]

\* re.sub(r'’', '\'', label)
ReSubApostrophe(s) == [i \in 1..Len(s) |-> IF s[i] = RSQUO THEN "'" ELSE s[i]]

\* re.sub(r'!|\[|\]|\(|\)', '', label)
ReSubPunct(s) == SelectSeq(s, LAMBDA c : c \notin SongPunct)

\* re.split(r', | | ', s): the words of s, word being the one under way
RECURSIVE ReSplit(_, _)
ReSplit(s, word) ==
    IF s = <<>> THEN <<word>>
    ELSE IF Len(s) >= 2 /\ s[1] = "," /\ s[2] = " "
         THEN <<word>> \o ReSplit(SubSeq(s, 3, Len(s)), <<>>)
    ELSE IF s[1] = " " \/ s[1] = NBSP
         THEN <<word>> \o ReSplit(Tail(s), <<>>)
    ELSE ReSplit(Tail(s), Append(word, s[1]))

\* lines 40-43: the words of an artist label
ArtistWords(label) == ReSplit(StrLower(ReSubApostrophe(label)), <<>>)

\* lines 57-62: the words of a song label
SongWords(label) == ReSplit(StrLower(ReSubPunct(ReSubApostrophe(label))), <<>>)

\* for word in a: if word in b: coef += 1
RECURSIVE CountIn(_, _)
CountIn(a, b) ==
    IF a = <<>> THEN 0
    ELSE (IF \E j \in 1..Len(b) : b[j] = Head(a) THEN 1 ELSE 0) + CountIn(Tail(a), b)

\* count / len >= thresh - 1e-5
CoefAtLeast(count, len, thresh) == count * 100000 >= (thresh - 1) * len

\* the coefficient is taken one way only
MatchCoefOneWay(a, b, thresh) == CoefAtLeast(CountIn(a, b), Len(a), thresh)

\* max(coef_01 / len(a), coef_10 / len(b)) >= match_thresh
MatchCoef(a, b, thresh) ==
    \/ CoefAtLeast(CountIn(a, b), Len(a), thresh)
    \/ CoefAtLeast(CountIn(b, a), Len(b), thresh)

\* labels_match(original_labels, compared_labels, match_thresh)
labels_match(original_labels, compared_labels, thresh) ==
    LET artist_0 == original_labels[1]
        song_0   == original_labels[2]
        artist_1 == compared_labels[1]
        song_1   == compared_labels[2]
    IN  IF artist_1 = NaN \/ song_1 = NaN THEN FALSE
        ELSE /\ MatchCoef(ArtistWords(artist_0), ArtistWords(artist_1), thresh)
             /\ MatchCoef(SongWords(song_0), SongWords(song_1), thresh)

\* ---- the inputs of the calls ----
OrigArtists ==
    { <<"a">>, <<"a", " ", "b">>, <<"n", "a", "n">>, <<"a", RSQUO, "b">> }

CompArtists ==
    { <<"a">>, <<"A", ",", " ", "c">>, <<"b", NBSP, "c">>, NaN, <<"a", "'", "b">> }

OrigSongs ==
    { <<>>, <<"a">>, <<"a", " ", "b">>, <<"(", "a", ")", " ", "b">>,
      <<"n", "a", "n">>, <<"a", " ", " ", "b">>, <<"a", NBSP, "b", " ", "c">>,
      <<"a", RSQUO>> }

CompSongs ==
    { <<>>, <<"a">>, <<"b", ",", " ", "c">>, <<"A", "!">>, NaN,
      <<"c", " ", "c", " ", "b">>, <<"a", "'">>, <<"a", ",", "b">>, <<"b", " ">> }

\* one letter changes its case, or one typographic apostrophe gets straight
LetterEdits(label) ==
    { [label EXCEPT ![i] = UpperOf[label[i]]] :
        i \in {k \in 1..Len(label) : label[k] \in DOMAIN UpperOf} }
    \cup
    { [label EXCEPT ![i] = LowerOf[label[i]]] :
        i \in {k \in 1..Len(label) : label[k] \in DOMAIN LowerOf} }
    \cup
    { [label EXCEPT ![i] = "'"] : i \in {k \in 1..Len(label) : label[k] = RSQUO} }

\* one of ! [ ] ( ) is inserted into or removed from the label
PunctEdits(label) ==
    { SubSeq(label, 1, i) \o <<c>> \o SubSeq(label, i + 1, Len(label)) :
        i \in 0..Len(label), c \in SongPunct }
    \cup
    { SubSeq(label, 1, i - 1) \o SubSeq(label, i + 1, Len(label)) :
        i \in {k \in 1..Len(label) : label[k] \in SongPunct} }

\* the argument lists that differ from args by one such change of one label
Variants(args) ==
    LET o == args[1]
        c == args[2]
    IN  { <<<<a, o[2]>>, c>> : a \in LetterEdits(o[1]) }
        \cup { <<<<o[1], t>>, c>> : t \in LetterEdits(o[2]) \cup PunctEdits(o[2]) }
        \cup { <<o, <<a, c[2]>>>> : a \in LetterEdits(c[1]) }
        \cup { <<o, <<c[1], t>>>> : t \in LetterEdits(c[2]) \cup PunctEdits(c[2]) }

\* two calls are to be made: one, and one with a label changed
InitLabels ==
    /\ NoCrawl
    /\ NoStats
    /\ NoEnrich
    /\ \E o \in OrigArtists \X OrigSongs, c \in CompArtists \X CompSongs :
         \E v \in Variants(<<o, c>>) : calls = << <<o, c>>, v >>
    /\ verdicts = <<>>

\* the next call of labels_match, with the default threshold
CallLabelsMatch ==
    /\ Len(verdicts) < Len(calls)
    /\ LET args == calls[Len(verdicts) + 1]
       IN  verdicts' = Append(verdicts, labels_match(args[1], args[2], match_thresh))
    /\ UNCHANGED calls
    /\ UNCHANGED <<spiderVars, statsVars, enrichVars>>

NextLabels == CallLabelsMatch

SpecLabels == InitLabels /\ [][NextLabels]_vars

(***************************************************************************)
(* artist_stats                                                            *)
(* The chart table is in the order of the crawl: by date.                  *)
(***************************************************************************)
\* number of rows of the chart tables tried
MaxTable == 3

ArtistNames == { <<"a">>, <<"a", "b">>, <<"b">> }

ChartRows == [date : 1..2, pos : {1, 100}, artist : ArtistNames, song : {"x", "y"}]

\* the tables of at most n rows, in the order of the crawl
ChartTables(n) ==
    { t \in SeqsUpTo(ChartRows, n) :
        t # <<>> /\ \A i \in 1..Len(t) : i > 1 => t[i - 1].date <= t[i].date }

\* Series.str.startswith(prefix)
StartsWith(label, prefix) ==
    /\ Len(label) >= Len(prefix)
    /\ SubSeq(label, 1, Len(prefix)) = prefix

\* .assign(score=lambda x: 101 - x.pos)
AssignScore(rows) ==
    [i \in 1..Len(rows) |->
        [date |-> rows[i].date, pos |-> rows[i].pos, artist |-> rows[i].artist,
         song |-> rows[i].song, score |-> 101 - rows[i].pos]]

\* hot_100.query(f'artist == "{artist}"')
SoloDf(table, name) == AssignScore(SelectSeq(table, LAMBDA r : r.artist = name))

\* hot_100[hot_100.artist.str.startswith(artist) & (hot_100.artist != artist)]
ColabDf(table, name) ==
    AssignScore(SelectSeq(table, LAMBDA r : StartsWith(r.artist, name) /\ r.artist # name))

\* Series.sum()
RECURSIVE ScoreSum(_)
ScoreSum(frame) == IF frame = <<>> THEN 0 ELSE Head(frame).score + ScoreSum(Tail(frame))

\* the keys of df.groupby('song', sort=False): the songs by first appearance
RECURSIVE SongsOf(_, _)
SongsOf(frame, seen) ==
    IF frame = <<>> THEN seen
    ELSE SongsOf(Tail(frame),
                 IF \E k \in 1..Len(seen) : seen[k] = Head(frame).song THEN seen
                 ELSE Append(seen, Head(frame).song))

\* Series.nunique()
NUnique(frame) == Len(SongsOf(frame, <<>>))

\* np.union1d(solo_df.date.values, colab_df.date.values).size
WeeksOf(solo_df, colab_df) ==
    Cardinality({solo_df[i].date : i \in 1..Len(solo_df)}
                \cup {colab_df[i].date : i \in 1..Len(colab_df)})

\* lines 367-382: the statistics written before any row is picked
BasicStats(solo_df, colab_df) ==
    [solo_songs   |-> NUnique(solo_df),
     collab_songs |-> NUnique(colab_df),
     weeks        |-> WeeksOf(solo_df, colab_df),
     solo_score   |-> ScoreSum(solo_df),
     total_score  |-> ScoreSum(solo_df) + ScoreSum(colab_df)]

\* artist_stats(artist, hot_100): .iloc[0] raises IndexError on an empty
\* frame, at line 384 without solo rows and at line 404 without
\* collaboration rows; the file holds what was written before
ArtistStats ==
    /\ stats_ret = "none"
    /\ LET solo_df  == SoloDf(hot_100, artist)
           colab_df == ColabDf(hot_100, artist)
       IN  /\ songs_json' = <<SongsOf(solo_df, <<>>), SongsOf(colab_df, <<>>)>>
           /\ stats_txt' = <<BasicStats(solo_df, colab_df)>>
           /\ stats_ret' = IF solo_df = <<>> \/ colab_df = <<>>
                           THEN "IndexError" ELSE "True"
    /\ UNCHANGED <<hot_100, artist>>
    /\ UNCHANGED <<spiderVars, labelVars, enrichVars>>

InitStats ==
    /\ NoCrawl
    /\ NoLabels
    /\ NoEnrich
    /\ hot_100 \in ChartTables(MaxTable)
    /\ artist \in ArtistNames
    /\ stats_txt = <<>>
    /\ songs_json = <<>>
    /\ stats_ret = "none"

NextStats == ArtistStats

SpecStats == InitStats /\ [][NextStats]_vars

(***************************************************************************)
(* spotify_audio_features                                                  *)
(* Tokens, track IDs and artist IDs are numbers; 0 stands for the empty    *)
(* Authorization header, and NullId for the ID 'NaN'.  A response is kept  *)
(* with the request it answers: [payload, auth, sc].                       *)
(***************************************************************************)
batch_size == 50

\* number of full batches a data frame of the model may hold
MaxBatches == 2

\* number of tokens the accounts service hands out in a run
MaxAuth == 3

\* a date of the index that is null (NaT)
NullDate == 0

NullId == 0

\* the header line of the CSV file
Header == [line |-> "header"]

\* a line the file held before the run
OldLine == [line |-> "old"]

\* status codes: OK, expired token, rate limit, any other error
StatusCodes == {200, 401, 429, 500}

\* the answers of the accounts service: a token (200) or a refusal
TokenCodes == {200, 400}

DigitChar == <<"0", "1", "2", "3", "4", "5", "6", "7", "8", "9">>

RECURSIVE Digits(_)
Digits(n) ==
    IF n < 10 THEN <<DigitChar[n + 1]>>
    ELSE Append(Digits(n \div 10), DigitChar[(n % 10) + 1])

RECURSIVE NumOf(_)
\* the number a sequence of digits spells
NumOf(digits) ==
    IF digits = <<>> THEN 0
    ELSE 10 * NumOf(SubSeq(digits, 1, Len(digits) - 1))
         + (CHOOSE d \in 0..9 : DigitChar[d + 1] = digits[Len(digits)])

\* ---- the data frames tried ----
\* the labels of track t: two tracks share an artist
TrackArtist(t) == <<"a">> \o Digits((t + 5) \div 6)

TrackSong(t) == <<"s">> \o Digits(t)

DfShapes == {"ascending", "descending", "recurring", "repeated", "null_date", "unmatched"}

\* row i of the data frame of n rows of a shape
DfRow(shape, n, i) ==
    LET t == CASE shape \in {"recurring", "repeated"} -> (i + 1) \div 2
               [] shape = "unmatched" -> 3 * i
               [] OTHER -> i
        d == CASE shape = "descending" -> n + 1 - i
               [] shape = "repeated" -> (i + 1) \div 2
               [] shape = "null_date" /\ i = 3 -> NullDate
               [] OTHER -> i
    IN  [date |-> d, artist |-> TrackArtist(t), song |-> TrackSong(t)]

Df(shape, n) == [i \in 1..n |-> DfRow(shape, n, i)]

\* short frames of every shape, and frames around a whole number of batches
SmallSizes == 0..4

BatchSizes == {k * batch_size + j : k \in 1..MaxBatches, j \in {-1, 0, 1}}

Frames ==
    {Df(shape, n) : shape \in DfShapes, n \in SmallSizes}
        \cup {Df("ascending", n) : n \in BatchSizes}

\* ---- the catalog: what the search answers with 200 ----
\* tracks 1, 4, 7, ... are found (second item of two, or both items of two),
\* tracks 2, 5, 8, ... only as another song or as a song with no artist,
\* tracks 3, 6, 9, ... not at all
SearchResult(payload) ==
    LET t == NumOf(Tail(payload.track))
        n == NumOf(Tail(payload.artist))
    IN  CASE t % 6 = 1 ->
               << [name |-> <<"x">>, id |-> 2000 + t,
                   artists |-> <<[name |-> <<"a">> \o Digits(n), id |-> 1000 + n]>>],
                  [name |-> <<"S">> \o Digits(t) \o <<"!">>, id |-> t,
                   artists |-> <<[name |-> <<"A">> \o Digits(n), id |-> 1000 + n]>>] >>
          [] t % 6 = 4 ->
               << [name |-> <<"S">> \o Digits(t) \o <<"!">>, id |-> t,
                   artists |-> <<[name |-> <<"A">> \o Digits(n), id |-> 1000 + n]>>],
                  [name |-> <<"s">> \o Digits(t), id |-> 4000 + t,
                   artists |-> <<[name |-> <<"a">> \o Digits(n), id |-> 5000 + n]>>] >>
          [] t % 6 = 2 ->
               << [name |-> <<"x">>, id |-> 2000 + t,
                   artists |-> <<[name |-> <<"y">>, id |-> 3000 + t]>>] >>
          [] t % 6 = 5 ->
               << [name |-> <<"x">>, id |-> 2000 + t,
                   artists |-> <<[name |-> <<"y">>, id |-> 3000 + t]>>],
                  [name |-> <<"s">> \o Digits(t), id |-> 4000 + t, artists |-> <<>>] >>
          [] OTHER -> <<>>

\* ---- lines 216-229: the search request of a row ----
\* str.split(',')[0]
FirstField(label) ==
    IF \E i \in 1..Len(label) : label[i] = ","
    THEN SubSeq(label, 1, (CHOOSE i \in 1..Len(label) :
                              label[i] = "," /\ \A j \in 1..(i - 1) : label[j] # ",") - 1)
    ELSE label

\* str.replace('The', '')
RECURSIVE RemoveThe(_)
RemoveThe(label) ==
    IF label = <<>> THEN <<>>
    ELSE IF Len(label) >= 3 /\ SubSeq(label, 1, 3) = <<"T", "h", "e">>
         THEN RemoveThe(SubSeq(label, 4, Len(label)))
    ELSE <<Head(label)>> \o RemoveThe(Tail(label))

\* str.strip()
RECURSIVE Strip(_)
Strip(label) ==
    IF label = <<>> THEN <<>>
    ELSE IF Head(label) \in {" ", NBSP} THEN Strip(Tail(label))
    ELSE IF label[Len(label)] \in {" ", NBSP} THEN Strip(SubSeq(label, 1, Len(label) - 1))
    ELSE label

\* payload_search for a row
SearchQuery(hot) ==
    [artist |-> Strip(SelectSeq(RemoveThe(FirstField(hot.artist)), LAMBDA c : c # ".")),
     track  |-> SelectSeq(hot.song, LAMBDA c : c # "'")]

\* ---- lines 252-274: the item recorded for a row ----
ItemLabels(item) ==
    [artist_spot    |-> IF item.artists # <<>> THEN item.artists[1].name ELSE NaN,
     artist_spot_id |-> IF item.artists # <<>> THEN item.artists[1].id ELSE NullId,
     song_spot      |-> item.name,
     song_spot_id   |-> item.id]

RECURSIVE ItemLoopNoBreak(_, _)
\* the loop goes on after a match: the last item decides
ItemLoopNoBreak(hot, spot_q) ==
    LET labels == ItemLabels(Head(spot_q))
    IN  IF Tail(spot_q) # <<>> THEN ItemLoopNoBreak(hot, Tail(spot_q))
        ELSE [labels |-> labels,
              matched |-> IF labels_match(<<hot.artist, hot.song>>,
                                          <<labels.artist_spot, labels.song_spot>>,
                                          match_thresh)
                          THEN 1 ELSE 0]

RECURSIVE ItemLoop(_, _)
\* for item in spot_q: ... break at the first item whose labels match
ItemLoop(hot, spot_q) ==
    LET labels == ItemLabels(Head(spot_q))
    IN  IF labels_match(<<hot.artist, hot.song>>,
                        <<labels.artist_spot, labels.song_spot>>, match_thresh)
        THEN [labels |-> labels, matched |-> 1]
        ELSE IF Tail(spot_q) = <<>> THEN [labels |-> labels, matched |-> 0]
        ELSE ItemLoop(hot, Tail(spot_q))

Matching(hot, spot_q) ==
    IF spot_q # <<>> THEN ItemLoop(hot, spot_q)
    ELSE [labels |-> [artist_spot |-> NaN, artist_spot_id |-> NullId,
                      song_spot |-> NaN, song_spot_id |-> NullId],
          matched |-> 0]

\* lines 277-286: the record appended to batch_list; row is the df position
BatchRecord(row, hot, spot_q) ==
    LET m == Matching(hot, spot_q)
    IN  [row |-> row, date |-> hot.date, artist_orig |-> hot.artist,
         song_orig |-> hot.song, artist_spot |-> m.labels.artist_spot,
         song_spot |-> m.labels.song_spot,
         artist_spot_id |-> m.labels.artist_spot_id,
         song_spot_id |-> m.labels.song_spot_id, match |-> m.matched]

\* ---- save_batch, lines 121-130 and 163-189 ----
MatchedOf(batch) == SelectSeq(batch, LAMBDA r : r.match = 1)

\* song_IDs and artist_IDs: the IDs of the matched records, repeats included
SongIDs(batch) == [k \in 1..Len(MatchedOf(batch)) |-> MatchedOf(batch)[k].song_spot_id]

ArtistIDs(batch) == [k \in 1..Len(MatchedOf(batch)) |-> MatchedOf(batch)[k].artist_spot_id]

Occurrences(ids, x) == Cardinality({k \in 1..Len(ids) : ids[k] = x})

AtLeastOne(n) == IF n = 0 THEN 1 ELSE n

\* batch_df.merge(genres_df, how='left').merge(features_df, how='left'):
\* the API answers one entry per requested ID, so a record comes out once
\* per entry with its artist ID times once per entry with its song ID
RECURSIVE MergeRows(_, _, _)
MergeRows(batch, artist_ids, song_ids) ==
    IF batch = <<>> THEN <<>>
    ELSE LET r == Head(batch)
             n == AtLeastOne(Occurrences(artist_ids, r.artist_spot_id))
                  * AtLeastOne(Occurrences(song_ids, r.song_spot_id))
         IN  [k \in 1..n |-> r] \o MergeRows(Tail(batch), artist_ids, song_ids)

\* drop_duplicates(subset=['date', 'artist_orig', 'song_orig']): keep the first
RECURSIVE DropDuplicates(_, _)
DropDuplicates(rows, seen) ==
    IF rows = <<>> THEN <<>>
    ELSE LET r   == Head(rows)
             key == <<r.date, r.artist_orig, r.song_orig>>
         IN  IF key \in seen THEN DropDuplicates(Tail(rows), seen)
             ELSE <<r>> \o DropDuplicates(Tail(rows), seen \cup {key})

\* batch_merged_df for answers 200 and 200
BatchMerged(batch) ==
    DropDuplicates(MergeRows(batch, ArtistIDs(batch), SongIDs(batch)), {})

\* pd.DataFrame(spot_artist)[['id', 'genres']] raises KeyError when no
\* artist came back, that is when no record of the batch is matched
SaveBatchRaises(batch) == MatchedOf(batch) = <<>>

\* ---- lines 207-208: the rows in the order of the iteration ----
RECURSIVE GroupsFrom(_, _, _)
\* the rows dated d..last, by date and within a date in the order of the frame
GroupsFrom(frame, d, last) ==
    IF d > last THEN <<>>
    ELSE IF d = last
         THEN SelectSeq([i \in 1..Len(frame) |-> i], LAMBDA i : frame[i].date = d)
    ELSE LET mid == (d + last) \div 2
         IN  GroupsFrom(frame, d, mid) \o GroupsFrom(frame, mid + 1, last)

\* the rows in the order of the data frame
FrameOrder(frame) == [i \in 1..Len(frame) |-> i]

\* df.groupby(level='date'), then iterrows(): the groups by date, rows with
\* a null date in none of them
GroupByOrder(frame) == GroupsFrom(frame, 1, Len(frame))

\* lines 200-201: the number of batches shown on the display
no_batches ==
    LET n == (Len(df) \div batch_size) + 1
    IN  IF Len(df) % batch_size # 0 THEN n ELSE n - 1

\* ---- the function ----
\* the status codes the API may answer: it finds a token expired only while
\* the accounts service still hands out tokens
AnswerCodes == IF n_auth < MaxAuth THEN StatusCodes ELSE StatusCodes \ {401}

\* the token is left as it was
AuthUpdateKeepsToken(tsc, back_to) ==
    /\ n_auth' = n_auth + 1
    /\ header_auth' = header_auth
    /\ IF tsc = 200
       THEN pc' = back_to /\ ret' = ret
       ELSE pc' = "done" /\ ret' = "Token exception"

\* auth_update(header_auth), lines 109-116, then back to the loop it is in
AuthUpdate(tsc, back_to) ==
    /\ n_auth' = n_auth + 1
    /\ IF tsc = 200
       THEN header_auth' = n_auth + 1 /\ pc' = back_to /\ ret' = ret
       ELSE header_auth' = header_auth /\ pc' = "done" /\ ret' = "Token exception"

\* lines 191-204: the first token, the counters
Authorize ==
    /\ pc = "auth"
    /\ \E tsc \in TokenCodes : AuthUpdate(tsc, "loop")
    /\ order' = GroupByOrder(df)
    /\ UNCHANGED <<df, log_file, hot_i, batch_list, batch_i, final_save,
                   spot_q_resp, spot_feat_resp, spot_artist_resp, rate_limited,
                   sent_after_429, searched, saved>>
    /\ UNCHANGED <<spiderVars, labelVars, statsVars>>

\* lines 207-210 and 306-317: the next row, or the end of the loop
NextRow ==
    /\ pc = "loop"
    /\ IF hot_i < Len(order)
       THEN /\ hot_i' = hot_i + 1
            /\ pc' = "search"
            /\ UNCHANGED <<ret, final_save, saved>>
       ELSE IF batch_list # <<>>
       THEN /\ final_save' = TRUE
            /\ saved' = Append(saved, [k \in 1..Len(batch_list) |-> batch_list[k].row])
            /\ pc' = "features"
            /\ UNCHANGED <<ret, hot_i>>
       ELSE /\ ret' = "True"
            /\ pc' = "done"
            /\ UNCHANGED <<hot_i, final_save, saved>>
    /\ UNCHANGED <<df, log_file, order, batch_list, batch_i, header_auth, n_auth,
                   spot_q_resp, spot_feat_resp, spot_artist_resp, rate_limited,
                   sent_after_429, searched>>
    /\ UNCHANGED <<spiderVars, labelVars, statsVars>>

\* a 429 of the search is slept on like any other error
SearchRetriesOn429(sc) == sc \notin {200, 401}

\* the search answers neither 200, 401 nor 429: sleep and ask again
SearchRetries(sc) == sc \notin {200, 401, 429}

\* lines 231-304: one search request of the current row and what follows
Search ==
    /\ pc = "search"
    /\ \E sc \in AnswerCodes :
         LET hot     == df[order[hot_i]]
             payload == SearchQuery(hot)
         IN  /\ spot_q_resp' = [payload |-> payload, auth |-> header_auth, sc |-> sc]
             /\ sent_after_429' = sent_after_429 + (IF rate_limited # "no" THEN 1 ELSE 0)
             /\ rate_limited' = IF sc = 429 THEN "search" ELSE rate_limited
             /\ IF SearchRetries(sc)
                THEN UNCHANGED <<pc, ret, header_auth, n_auth, batch_list, searched,
                                 saved, final_save>>
                ELSE IF sc = 429
                THEN /\ ret' = "False"
                     /\ pc' = "done"
                     /\ UNCHANGED <<header_auth, n_auth, batch_list, searched, saved,
                                    final_save>>
                ELSE IF sc = 401
                THEN /\ \E tsc \in TokenCodes : AuthUpdate(tsc, "search")
                     /\ UNCHANGED <<batch_list, searched, saved, final_save>>
                ELSE /\ batch_list' =
                          Append(batch_list,
                                 BatchRecord(order[hot_i], hot, SearchResult(payload)))
                     /\ searched' = Append(searched, order[hot_i])
                     /\ IF Len(batch_list') = batch_size
                        THEN /\ pc' = "features"
                             /\ final_save' = FALSE
                             /\ saved' = Append(saved,
                                    [k \in 1..Len(batch_list') |-> batch_list'[k].row])
                        ELSE /\ pc' = "loop"
                             /\ UNCHANGED <<final_save, saved>>
                     /\ UNCHANGED <<ret, header_auth, n_auth>>
    /\ UNCHANGED <<df, log_file, order, hot_i, batch_i, spot_feat_resp, spot_artist_resp>>
    /\ UNCHANGED <<spiderVars, labelVars, statsVars>>

\* lines 134-135: the audio-features request of save_batch
Features ==
    /\ pc = "features"
    /\ \E sc \in AnswerCodes :
         /\ spot_feat_resp' = [payload |-> SongIDs(batch_list), auth |-> header_auth, sc |-> sc]
         /\ rate_limited' = IF sc = 429 THEN "features" ELSE rate_limited
    /\ sent_after_429' = sent_after_429 + (IF rate_limited # "no" THEN 1 ELSE 0)
    /\ pc' = "artists"
    /\ UNCHANGED <<df, log_file, ret, order, hot_i, batch_list, batch_i, final_save,
                   header_auth, n_auth, spot_q_resp, spot_artist_resp, searched, saved>>
    /\ UNCHANGED <<spiderVars, labelVars, statsVars>>

\* to_csv: the first full batch writes the file anew with a header, every
\* other save appends the lines
ToCsv(file, rows, final) ==
    IF ~final /\ batch_i = 0 THEN <<Header>> \o rows ELSE file \o rows

\* lines 136-189 and 289-312: the artists request of save_batch, the status
\* checks of both answers, and the save of the batch
Artists ==
    /\ pc = "artists"
    /\ sent_after_429' = sent_after_429 + (IF rate_limited # "no" THEN 1 ELSE 0)
    /\ \E sc \in AnswerCodes :
         LET feat_sc == spot_feat_resp.sc
         IN  /\ spot_artist_resp' =
                    [payload |-> ArtistIDs(batch_list), auth |-> header_auth, sc |-> sc]
             /\ rate_limited' = IF rate_limited = "no" /\ sc = 429 THEN "artists"
                                ELSE rate_limited
             /\ IF feat_sc = 429 \/ sc = 429
                THEN /\ ret' = "Rate limit exception"
                     /\ pc' = "done"
                     /\ UNCHANGED <<header_auth, n_auth, log_file, batch_list, batch_i>>
                ELSE IF feat_sc = 401 \/ sc = 401
                THEN /\ \E tsc \in TokenCodes : AuthUpdate(tsc, "features")
                     /\ UNCHANGED <<log_file, batch_list, batch_i>>
                ELSE IF feat_sc # 200 \/ sc # 200
                THEN /\ pc' = "features"
                     /\ UNCHANGED <<ret, header_auth, n_auth, log_file, batch_list, batch_i>>
                ELSE IF SaveBatchRaises(batch_list)
                THEN /\ ret' = "KeyError"
                     /\ pc' = "done"
                     /\ UNCHANGED <<header_auth, n_auth, log_file, batch_list, batch_i>>
                ELSE /\ log_file' = ToCsv(log_file, BatchMerged(batch_list), final_save)
                     /\ IF final_save
                        THEN /\ ret' = "True"
                             /\ pc' = "done"
                             /\ UNCHANGED <<batch_list, batch_i>>
                        ELSE /\ batch_i' = batch_i + 1
                             /\ batch_list' = <<>>
                             /\ pc' = "loop"
                             /\ ret' = ret
                     /\ UNCHANGED <<header_auth, n_auth>>
    /\ UNCHANGED <<df, order, hot_i, final_save, spot_q_resp, spot_feat_resp,
                   searched, saved>>
    /\ UNCHANGED <<spiderVars, labelVars, statsVars>>

\* the call: a data frame, and the log file as an earlier run left it
InitEnrich ==
    /\ df \in Frames
    /\ log_file \in {<<>>, <<Header, OldLine>>}
    /\ pc = "auth"
    /\ ret = "none"
    /\ order = <<>>
    /\ hot_i = 0
    /\ batch_list = <<>>
    /\ batch_i = 0
    /\ final_save = FALSE
    /\ header_auth = 0
    /\ n_auth = 0
    /\ spot_q_resp = NoResp
    /\ spot_feat_resp = NoResp
    /\ spot_artist_resp = NoResp
    /\ rate_limited = "no"
    /\ sent_after_429 = 0
    /\ searched = <<>>
    /\ saved = <<>>
    /\ NoCrawl /\ NoLabels /\ NoStats

NextEnrich == Authorize \/ NextRow \/ Search \/ Features \/ Artists

\* every request is answered, and an answer of 200 is not withheld for ever
SpecEnrich == InitEnrich /\ [][NextEnrich]_vars /\ WF_vars(NextEnrich)

(***************************************************************************)
(* C1: pagination                                                          *)
(***************************************************************************)
\* number of weekly charts from starting_date to ending_date
NumWeeks == (ending_date - starting_date) \div 7 + 1

C1_Requests ==
    /\ Len(scheduled) <= 1
    /\ n_requested <= NumWeeks
    /\ last_requested = starting_date + 7 * (n_requested - 1)
    /\ last_requested <= ending_date
    /\ scheduled # <<>> => scheduled = <<last_requested>>
    /\ all_parsed /\ scheduled # <<>> =>
          /\ last_requested = resp_date
          /\ n_requested = pages_parsed + 1
    /\ all_parsed /\ scheduled = <<>> =>
          /\ n_requested = NumWeeks
          /\ last_requested = ending_date
          /\ pages_parsed = NumWeeks

C1_ParseStep ==
    /\ pages_parsed' = pages_parsed + 1 =>
          /\ resp_date' = resp_date + 7
          /\ IF resp_date' <= ending_date
             THEN /\ n_requested' = n_requested + 1
                  /\ last_requested' = resp_date'
                  /\ scheduled' = <<resp_date'>>
             ELSE /\ n_requested' = n_requested
                  /\ scheduled' = <<>>
    /\ n_requested' # n_requested =>
          /\ n_requested' = n_requested + 1
          /\ last_requested' > last_requested
          /\ pages_parsed' = pages_parsed + 1

\* C1: every parse that runs to its end advances resp_date by exactly 7 days
\* and issues exactly one follow-up request iff the new date is not after
\* ending_date; the requested dates are starting_date + 7k in increasing
\* order, each once, never after ending_date, with at most one request
\* outstanding; when every page parses all of them are requested, and the
\* crawl ends.
C1_Pagination ==
    /\ []C1_Requests
    /\ [][C1_ParseStep]_vars
    /\ <>[](scheduled = <<>>)

C1_Witness ==
    /\ all_parsed
    /\ scheduled = <<>>
    /\ n_requested = NumWeeks
    /\ last_requested = ending_date
    /\ resp_date = ending_date + 7

(***************************************************************************)
(* C6: chart-row identity                                                  *)
(***************************************************************************)
NoSharedDatePos ==
    \A i, j \in 1..Len(items) :
        i # j => <<items[i].date, items[i].pos>> # <<items[j].date, items[j].pos>>

DistinctCharts ==
    /\ \A i, j \in 1..Len(responses) :
          i # j /\ responses[i].date # NoDate => responses[i].date # responses[j].date
    /\ \A i \in 1..Len(responses) :
          \A m, n \in 1..Len(responses[i].rows) :
              m # n => responses[i].rows[m] # responses[i].rows[n]

SepStarts(s, spaces) ==
    { i \in 1..Len(s) :
        \/ s[i] = "," /\ i < Len(s) /\ s[i + 1] = " "
        \/ s[i] \in spaces /\ ~(s[i] = " " /\ i > 1 /\ s[i - 1] = ",") }

\* the tokens of s: what lies between its separators
Tokens(s, spaces) ==
    LET seps   == SepStarts(s, spaces)
        nth(k) == CHOOSE p \in seps : Cardinality({q \in seps : q < p}) = k - 1
        from(k) == IF k = 1 THEN 1
                   ELSE nth(k - 1) + (IF s[nth(k - 1)] = "," THEN 2 ELSE 1)
        to(k)   == IF k = Cardinality(seps) + 1 THEN Len(s) ELSE nth(k) - 1
    IN  [k \in 1..(Cardinality(seps) + 1) |-> SubSeq(s, from(k), to(k))]

\* number of tokens of t0 found in t1
Found(t0, t1) == Cardinality({i \in 1..Len(t0) : \E j \in 1..Len(t1) : t1[j] = t0[i]})

\* the coefficient of a pair of token lists is at least 1/2
HalfFound(t0, t1) ==
    \/ 2 * Found(t0, t1) >= Len(t0)
    \/ 2 * Found(t1, t0) >= Len(t1)

LowerCased(s) == [i \in 1..Len(s) |-> IF s[i] \in {"A", "B", "C", "N"} THEN LowerOf[s[i]] ELSE s[i]]

\* the label as labels_match reads it: apostrophes straight, and in a song
\* label none of ! [ ] ( )
Normalized(label, is_song) ==
    LET kept == { i \in 1..Len(label) : ~(is_song /\ label[i] \in SongPunct) }
        nth(k) == CHOOSE p \in kept : Cardinality({q \in kept : q < p}) = k - 1
    IN  [k \in 1..Cardinality(kept) |->
            IF label[nth(k)] = RSQUO THEN "'" ELSE label[nth(k)]]

\* the verdict with tokens got by lower-casing and splitting on ", " or " "
StatedVerdict(args) ==
    /\ args[2][1] # NaN
    /\ args[2][2] # NaN
    /\ HalfFound(Tokens(LowerCased(args[1][1]), {" "}), Tokens(LowerCased(args[2][1]), {" "}))
    /\ HalfFound(Tokens(LowerCased(args[1][2]), {" "}), Tokens(LowerCased(args[2][2]), {" "}))

\* the verdict with tokens got from the normalized labels, split on ", ",
\* " " or a no-break space
NormalizedVerdict(args) ==
    LET tok(label, is_song) == Tokens(LowerCased(Normalized(label, is_song)), {" ", NBSP})
    IN  /\ args[2][1] # NaN
        /\ args[2][2] # NaN
        /\ HalfFound(tok(args[1][1], FALSE), tok(args[2][1], FALSE))
        /\ HalfFound(tok(args[1][2], TRUE), tok(args[2][2], TRUE))

\* C7 as stated: the returned Boolean is the verdict computed from tokens got
\* by lower-casing a label and splitting it on ", " or " ".
C7_StatedVerdict ==
    \A k \in 1..Len(verdicts) : verdicts[k] = StatedVerdict(calls[k])

\* C7 as amended: labels_match returns True iff the compared artist and song
\* are not 'NaN' and both coefficients are at least 1/2, the tokens being got
\* by replacing the typographic apostrophe by a straight one, removing
\* ! [ ] ( ) from the song labels, lower-casing, and splitting on ", ", " "
\* or a no-break space; labels_match(x, x) is True for every non-null x.
C7_NormalizedVerdict ==
    \A k \in 1..Len(verdicts) :
        /\ verdicts[k] = NormalizedVerdict(calls[k])
        /\ calls[k][1] = calls[k][2] => verdicts[k]

\* a pair that matches only after the normalization, next to its variant
C7_Witness ==
    /\ Len(verdicts) = 2
    /\ verdicts[1] /\ ~StatedVerdict(calls[1])
    /\ verdicts[2] = NormalizedVerdict(calls[2])
    /\ calls[1][1] # calls[1][2]

(***************************************************************************)
(* C8: normalization does not change the verdict                           *)
(***************************************************************************)
\* C8 as stated: changing the case of a letter of any label, making a
\* typographic apostrophe straight, or inserting or removing one of ! [ ] ( )
\* in a song label leaves the returned Boolean as it was.
C8_Invariant ==
    Len(verdicts) = 2 => verdicts[1] = verdicts[2]

NotNull(args) == args[2][1] # NaN /\ args[2][2] # NaN

\* C8 as amended: such a change leaves the returned Boolean as it was unless
\* a compared label is the null label 'NaN' before or after the change (the
\* null test reads the compared labels as they are given).
C8_InvariantUnlessNull ==
    Len(verdicts) = 2 /\ NotNull(calls[1]) /\ NotNull(calls[2]) =>
        verdicts[1] = verdicts[2]

\* a changed label of a matching pair, and of a pair that does not match
C8_Witness ==
    /\ Len(verdicts) = 2
    /\ NotNull(calls[1]) /\ NotNull(calls[2])
    /\ verdicts[1] /\ verdicts[2]
    /\ calls[1][2][2] # calls[2][2][2]

(***************************************************************************)
(* C9: the statistics of an artist                                         *)
(***************************************************************************)
SoloRows == {i \in 1..Len(hot_100) : hot_100[i].artist = artist}

CollabRows ==
    {i \in 1..Len(hot_100) :
        /\ hot_100[i].artist # artist
        /\ \E rest \in SeqsUpTo({"a", "b"}, 2) : hot_100[i].artist = artist \o rest}

RECURSIVE SumOver(_)
SumOver(rows) ==
    IF rows = {} THEN 0
    ELSE LET i == CHOOSE k \in rows : TRUE
         IN  (101 - hot_100[i].pos) + SumOver(rows \ {i})

\* the sums and counts written are those of the solo and collaboration rows
C9_Sums ==
    stats_ret # "none" =>
        /\ SoloRows \cap CollabRows = {}
        /\ stats_txt # <<>>
        /\ stats_txt[1].solo_songs = Cardinality({hot_100[i].song : i \in SoloRows})
        /\ stats_txt[1].collab_songs = Cardinality({hot_100[i].song : i \in CollabRows})
        /\ stats_txt[1].weeks = Cardinality({hot_100[i].date : i \in SoloRows \cup CollabRows})
        /\ stats_txt[1].solo_score = SumOver(SoloRows)
        /\ stats_txt[1].total_score = SumOver(SoloRows \cup CollabRows)

\* C9: for any chart table and artist name the statistics written are the
\* sums and counts over the solo rows (artist equal to the name) and the
\* collaboration rows (artist starting with the name, and different), each
\* row scoring 101 - pos, and the function returns True after writing them.
C9_StatsAndTrue ==
    stats_ret # "none" => C9_Sums /\ stats_ret = "True"

(***************************************************************************)
(* C2, C10: the rows examined and the lines of the log file                *)
(***************************************************************************)
\* the df positions of the row lines of the file, in the order of the file
LoggedRows ==
    LET lines == SelectSeq(log_file, LAMBDA l : "row" \in DOMAIN l)
    IN  [k \in 1..Len(lines) |-> lines[k].row]

BatchesWith(i) == {b \in 1..Len(saved) : \E k \in 1..Len(saved[b]) : saved[b][k] = i}

\* C2: whenever spotify_audio_features returns True, every row of df was
\* searched exactly once, was passed to save_batch in exactly one batch and
\* stands on exactly one line of the log file, the lines being in the order
\* in which the rows were iterated.
C2_AllExamined ==
    ret = "True" =>
        /\ \A i \in 1..Len(df) :
             /\ Occurrences(searched, i) = 1
             /\ Cardinality(BatchesWith(i)) = 1
             /\ Occurrences(LoggedRows, i) = 1
        /\ LoggedRows = searched

\* C10: for every input size N >= 1, after a return of True the log file is
\* one header line followed by the rows of this run only, whatever the file
\* held before the run.
C10_HeaderThenRows ==
    (ret = "True" /\ Len(df) >= 1) =>
        /\ log_file # <<>>
        /\ log_file[1] = Header
        /\ \A k \in 2..Len(log_file) : "row" \in DOMAIN log_file[k]

(***************************************************************************)
(* C3: rate limits                                                         *)
(***************************************************************************)
\* C3 as stated: once a request was answered 429, no further HTTP request
\* is sent.
C3_NoRequestAfter429 == rate_limited # "no" => sent_after_429 = 0

PendingNotWritten ==
    \A k \in 1..Len(batch_list) : Occurrences(LoggedRows, batch_list[k].row) = 0

C3_Aborted ==
    /\ rate_limited = "search" =>
         pc = "done" /\ ret = "False" /\ sent_after_429 = 0
    /\ rate_limited = "artists" =>
         pc = "done" /\ ret = "Rate limit exception" /\ sent_after_429 = 0
    /\ rate_limited = "features" =>
         \/ pc = "artists" /\ ret = "none" /\ sent_after_429 = 0
         \/ pc = "done" /\ ret = "Rate limit exception" /\ sent_after_429 = 1
    /\ rate_limited # "no" => PendingNotWritten

C3_LogFrozen ==
    (rate_limited # "no" \/ rate_limited' # "no") => log_file' = log_file

\* C3: a 429 of the search makes the function return False at once, a 429 of
\* the audio-features or of the artists request makes save_batch raise; no
\* request follows a 429 of the search or of the artists request, exactly
\* one request, the artists request of the same pass of the loop, follows a
\* 429 of the audio-features request; the log file is not written from the
\* 429 on, and the rows of the pending batch are not in it.
C3_RateLimitAborts == []C3_Aborted /\ [][C3_LogFrozen]_vars

\* a 429 of the audio-features request in the second batch: the artists
\* request went out after it, the first batch is in the file, the second not
C3_Witness ==
    /\ rate_limited = "features"
    /\ pc = "done"
    /\ sent_after_429 = 1
    /\ batch_i = 1
    /\ batch_list # <<>>
    /\ Len(LoggedRows) = batch_size

(***************************************************************************)
(* C4: expired tokens                                                      *)
(***************************************************************************)
Untouched == UNCHANGED <<hot_i, batch_list, batch_i, log_file, searched, saved>>

Refreshed(back_to) ==
    /\ n_auth' = n_auth + 1
    /\ \/ pc' = back_to /\ header_auth' # header_auth /\ ret' = ret
       \/ pc' = "done" /\ ret' = "Token exception" /\ header_auth' = header_auth

SaveExpired(feat_sc, artist_sc) ==
    /\ feat_sc # 429
    /\ artist_sc # 429
    /\ feat_sc = 401 \/ artist_sc = 401

C4_SearchExpiry ==
    (pc = "search" /\ spot_q_resp'.sc = 401) => Refreshed("search") /\ Untouched

C4_SearchResend ==
    (pc = "search" /\ spot_q_resp.sc = 401) =>
        /\ spot_q_resp'.payload = spot_q_resp.payload
        /\ spot_q_resp'.auth = header_auth
        /\ spot_q_resp'.auth # spot_q_resp.auth

C4_SaveExpiry ==
    (pc = "artists" /\ SaveExpired(spot_feat_resp.sc, spot_artist_resp'.sc)) =>
        Refreshed("features") /\ Untouched

C4_SaveResend ==
    /\ (pc = "features" /\ SaveExpired(spot_feat_resp.sc, spot_artist_resp.sc)) =>
         /\ spot_feat_resp'.payload = spot_feat_resp.payload
         /\ spot_feat_resp'.auth = header_auth
         /\ spot_feat_resp'.auth # spot_feat_resp.auth
         /\ pc' = "artists"
    /\ (pc = "artists" /\ spot_artist_resp.sc \notin {0, 200}) =>
         /\ spot_artist_resp'.payload = spot_artist_resp.payload
         /\ spot_artist_resp'.auth = spot_feat_resp.auth

C4_OnlyOnExpiry ==
    n_auth' # n_auth =>
        /\ n_auth' = n_auth + 1
        /\ \/ pc = "auth"
           \/ pc = "search" /\ spot_q_resp'.sc = 401
           \/ pc = "artists" /\ SaveExpired(spot_feat_resp.sc, spot_artist_resp'.sc)

\* the rows searched are the rows iterated so far, each once
C4_RowsInOrder ==
    /\ Len(searched) <= Len(order)
    /\ searched = SubSeq(order, 1, Len(searched))
    /\ Len(searched) \in {hot_i - 1, hot_i}
    /\ pc = "search" => Len(searched) = hot_i - 1
    /\ pc \in {"loop", "features", "artists"} => Len(searched) = hot_i
    /\ \A i \in 1..Len(df) : Occurrences(searched, i) <= 1 /\ Cardinality(BatchesWith(i)) <= 1

\* C4: when a search request, or one of the two requests of save_batch with
\* neither answered 429, is answered 401, auth_update is called exactly once
\* and the same request(s) are sent again with the refreshed Authorization
\* header before anything else; the current row or batch is neither skipped
\* nor recorded twice, and a token answer other than 200 raises an exception.
C4_TokenRefresh ==
    /\ []C4_RowsInOrder
    /\ [][/\ C4_SearchExpiry
          /\ C4_SearchResend
          /\ C4_SaveExpiry
          /\ C4_SaveResend
          /\ C4_OnlyOnExpiry]_vars

\* a run that returned True after an expiry in the search (the search went
\* through with the second token) and one in save_batch (the third token)
C4_Witness ==
    /\ ret = "True"
    /\ n_auth = 3
    /\ spot_q_resp.auth = 2
    /\ spot_q_resp.sc = 200
    /\ spot_feat_resp.auth = 3
    /\ spot_artist_resp.auth = 3
    /\ searched = order
    /\ Len(df) = 1
    /\ Len(LoggedRows) = 1

(***************************************************************************)
(* C5: retries                                                             *)
(***************************************************************************)
\* C5: the retry loops are left only on 200, 429 or a token failure, so a
\* run in which no request was answered 429 and no token was refused, once it
\* is over, has returned True.
C5_EndsWithTrue ==
    (pc = "done" /\ rate_limited = "no" /\ ret # "Token exception") => ret = "True"

(***************************************************************************)
(* C11: the size of the batches                                            *)
(***************************************************************************)
\* a save has just been made: the row searched last is the last of the
\* batch passed to save_batch last
JustSaved ==
    /\ saved # <<>>
    /\ searched # <<>>
    /\ Last(Last(saved)) = Last(searched)

NoNullDate == \A i \in 1..Len(df) : df[i].date # NullDate

BatchSizesKept ==
    \A b \in 1..Len(saved) :
        \/ Len(saved[b]) = batch_size
        \/ /\ b = Len(saved)
           /\ Len(df) % batch_size # 0
           /\ Len(saved[b]) = Len(df) % batch_size

\* C11: every call of save_batch gets exactly 50 rows, except the last call
\* of a run, which gets N mod 50 rows when N is not a multiple of 50;
\* batch_list never holds more than 50 rows and is empty when the loop goes
\* on after a save; a run that returns True has made no_batches = ceil(N/50)
\* calls of save_batch, and batch_i never exceeds no_batches.
C11_FixedBatches ==
    /\ BatchSizesKept
    /\ Len(batch_list) <= batch_size
    /\ (pc = "loop" /\ JustSaved) => batch_list = <<>>
    /\ batch_i <= no_batches
    /\ ret = "True" =>
         /\ Len(saved) = no_batches
         /\ Len(df) % batch_size # 0 => Len(Last(saved)) = Len(df) % batch_size

(***************************************************************************)
(* C12: the item recorded for a row                                        *)
(***************************************************************************)
\* the items the search answered for the row of a record
ItemsFor(rec) == SearchResult(SearchQuery(df[rec.row]))

\* the places of the items that pass labels_match against the row's labels
Passing(rec) ==
    {j \in 1..Len(ItemsFor(rec)) :
        labels_match(<<rec.artist_orig, rec.song_orig>>,
                     <<ItemLabels(ItemsFor(rec)[j]).artist_spot,
                       ItemLabels(ItemsFor(rec)[j]).song_spot>>, match_thresh)}

FirstPassing(rec) == CHOOSE j \in Passing(rec) : \A k \in Passing(rec) : j <= k

CatalogFields(rec) ==
    [artist_spot |-> rec.artist_spot, artist_spot_id |-> rec.artist_spot_id,
     song_spot |-> rec.song_spot, song_spot_id |-> rec.song_spot_id]

AllNaN ==
    [artist_spot |-> NaN, artist_spot_id |-> NullId,
     song_spot |-> NaN, song_spot_id |-> NullId]

SelectionOf(rec) ==
    /\ rec.artist_orig = df[rec.row].artist
    /\ rec.song_orig = df[rec.row].song
    /\ rec.match = 1 <=> Passing(rec) # {}
    /\ rec.match \in {0, 1}
    /\ Passing(rec) # {} =>
         CatalogFields(rec) = ItemLabels(ItemsFor(rec)[FirstPassing(rec)])
    /\ (Passing(rec) = {} /\ ItemsFor(rec) # <<>>) =>
         CatalogFields(rec) = ItemLabels(Last(ItemsFor(rec)))
    /\ ItemsFor(rec) = <<>> => CatalogFields(rec) = AllNaN

\* C12: a row is recorded with match = 1 iff an item of the search result
\* passes labels_match against the row's artist and song, and then with the
\* labels and IDs of the first such item; with the labels and IDs of the
\* last item and match = 0 if no item passes; with four 'NaN' and match = 0
\* if the result is empty.  The record is a function of the row alone.
\* (Stated of the record appended last: batch_list is only appended to and
\* emptied, so every record is the last one when it is made.)
C12_MatchSelection ==
    batch_list # <<>> => SelectionOf(Last(batch_list))

\* a batch under way holds a row found twice (the first item recorded), a
\* row whose last item has no artist, and a row with an empty result
C12_Witness ==
    /\ \E k \in 1..Len(batch_list) :
         /\ Cardinality(Passing(batch_list[k])) = 2
         /\ batch_list[k].match = 1
         /\ batch_list[k].song_spot_id = ItemsFor(batch_list[k])[1].id
    /\ \E k \in 1..Len(batch_list) :
         /\ Len(ItemsFor(batch_list[k])) = 2
         /\ batch_list[k].match = 0
         /\ batch_list[k].artist_spot = NaN
         /\ batch_list[k].song_spot_id = ItemsFor(batch_list[k])[2].id
    /\ \E k \in 1..Len(batch_list) :
         /\ ItemsFor(batch_list[k]) = <<>>
         /\ CatalogFields(batch_list[k]) = AllNaN
    /\ \E k \in 1..Len(batch_list) :
         /\ Passing(batch_list[k]) = {2}
         /\ batch_list[k].song_spot_id = ItemsFor(batch_list[k])[2].id

====
